---- MODULE Spec2Model ----
(***************************************************************************)
(* A model of the e-commerce crawler: the deduplicating URL frontier       *)
(* (crawler/url_frontier.py), the product classifier                       *)
(* (crawler/product_identifier.py), the crawl engine with its pool of      *)
(* asyncio workers (crawler/base_crawler.py) and the four site strategies  *)
(* (crawler/site_specific/*.py).                                           *)
(*                                                                         *)
(* URLs, markup and attribute values are TLA+ strings; the string          *)
(* operations of the code (rstrip, in, startswith, endswith, lower,        *)
(* re.search of its literal patterns) are computed on them character by    *)
(* character.                                                              *)
(***************************************************************************)
EXTENDS Integers, Sequences, FiniteSets, TLC

VARIABLES
    strategy,       \* the class main.py instantiates for the domain
    max_urls,       \* Crawler.max_urls
    concurrency,    \* Crawler.concurrency
    phase,          \* position of Crawler.crawl
    queue,          \* URLFrontier.queue
    seen_urls,      \* URLFrontier.seen_urls
    visited_urls,   \* Crawler.visited_urls
    product_urls,   \* Crawler.product_urls
    pc,             \* position of each worker task
    cur,            \* each worker's local variable url, while it is in use
    fetches,        \* history: how many times each URL was passed to process_url
    outcome,        \* history: how the process_url a worker pauses after ended, on which page
    calls,          \* frontier harness: the add and get calls made, in order
    cin,            \* classifier harness: the input (url, page)
    cout            \* classifier harness: the value is_product_page returned, once it has

vars == <<strategy, max_urls, concurrency, phase, queue, seen_urls, visited_urls, product_urls,
          pc, cur, fetches, outcome, calls, cin, cout>>

-----------------------------------------------------------------------------
(* Strings.  An operator that uses an argument more than once first binds   *)
(* it to its value, as the bound variable of a one-element set:             *)
(* Only({e(v) : v \in {x}}) is e(x) with x evaluated once.                  *)

Only(S) == CHOOSE r \in S : TRUE

\* Python: sub in s
Contains(s0, sub0) ==
    \E s \in {s0}, sub \in {sub0} :
        \E i \in 1..(Len(s) - Len(sub) + 1) : SubSeq(s, i, i + Len(sub) - 1) = sub

\* Python: s.startswith(p)
StartsWith(s0, p0) ==
    \E s \in {s0}, p \in {p0} : Len(s) >= Len(p) /\ SubSeq(s, 1, Len(p)) = p

\* Python: s.endswith(p)
EndsWith(s0, p0) ==
    \E s \in {s0}, p \in {p0} :
        Len(s) >= Len(p) /\ SubSeq(s, Len(s) - Len(p) + 1, Len(s)) = p

\* the least and the greatest element of a set of indices, 0 for the empty set
Least(I0) == Only({IF I = {} THEN 0 ELSE CHOOSE i \in I : \A j \in I : i <= j : I \in {I0}})
Greatest(I0) == Only({IF I = {} THEN 0 ELSE CHOOSE i \in I : \A j \in I : i >= j : I \in {I0}})

\* the indices of s at which sub occurs
Occurrences(s0, sub0) ==
    Only({{i \in 1..(Len(s) - Len(sub) + 1) : SubSeq(s, i, i + Len(sub) - 1) = sub} :
            s \in {s0}, sub \in {sub0}})

\* Python: s.find(sub) + 1, so 0 when sub does not occur in s
Find(s, sub) == Least(Occurrences(s, sub))

\* Python: s.rfind(sub) + 1
RFind(s, sub) == Greatest(Occurrences(s, sub))

\* Python: s[i-1:]
From(s0, i) == Only({SubSeq(s, i, Len(s)) : s \in {s0}})

\* Python: s[:i-1]
Before(s, i) == SubSeq(s, 1, i - 1)

RECURSIVE rstrip(_, _)
\* Python: s.rstrip(c) for a one-character c
rstrip(s0, c) ==
    Only({IF Len(s) > 0 /\ SubSeq(s, Len(s), Len(s)) = c
          THEN rstrip(SubSeq(s, 1, Len(s) - 1), c)
          ELSE s : s \in {s0}})

RECURSIVE lstrip(_, _)
\* Python: s.lstrip(c) for a one-character c
lstrip(s0, c) ==
    Only({IF Len(s) > 0 /\ SubSeq(s, 1, 1) = c
          THEN lstrip(SubSeq(s, 2, Len(s)), c)
          ELSE s : s \in {s0}})

Upper == "ABCDEFGHIJKLMNOPQRSTUVWXYZ"
Lower == "abcdefghijklmnopqrstuvwxyz"
Digits == "0123456789"

IsDigit(c) == Len(c) = 1 /\ Contains(Digits, c)

LowerChar(c0) ==
    Only({IF k = 0 THEN c ELSE SubSeq(Lower, k, k) : c \in {c0}, k \in {Find(Upper, c0)}})

RECURSIVE lower(_)
\* Python: s.lower(), one half of s after the other
lower(s0) ==
    Only({IF Len(s) = 0 THEN s
          ELSE IF Len(s) = 1 THEN LowerChar(s)
          ELSE lower(SubSeq(s, 1, Len(s) \div 2)) \o lower(SubSeq(s, Len(s) \div 2 + 1, Len(s)))
          : s \in {s0}})

-----------------------------------------------------------------------------
(* crawler/url_frontier.py *)

\* URLFrontier.add, line 14: url.rstrip('/')
Normalize(url) == rstrip(url, "/")

\* The mutant of FrontierAdd that forgets the normalization.
FrontierAddRaw(q, seen, url) ==
    IF url \notin seen
    THEN [queue |-> Append(q, url), seen |-> seen \cup {url}, appended |-> <<url>>]
    ELSE [queue |-> q, seen |-> seen, appended |-> <<>>]

\* The mutant of FrontierAdd that looks for the URL in the queue instead of
\* the seen-set.
FrontierAddUnlessQueued(q, seen, url) ==
    IF \A k \in 1..Len(q) : q[k] # Normalize(url)
    THEN [queue |-> Append(q, Normalize(url)), seen |-> seen \cup {Normalize(url)},
          appended |-> <<Normalize(url)>>]
    ELSE [queue |-> q, seen |-> seen, appended |-> <<>>]

\* URLFrontier.add: the frontier after add(url), and what it appended
FrontierAdd(q, seen, url) ==
    LET normalized_url == Normalize(url) IN
    IF normalized_url \notin seen
    THEN [queue |-> Append(q, normalized_url), seen |-> seen \cup {normalized_url},
          appended |-> <<normalized_url>>]
    ELSE [queue |-> q, seen |-> seen, appended |-> <<>>]

\* The mutant of FrontierGet that pops from the right (deque.pop).
FrontierGetRight(q) == [url |-> q[Len(q)], queue |-> SubSeq(q, 1, Len(q) - 1)]

\* The mutant of FrontierGet that leaves the URL in the queue (queue[0]).
FrontierGetPeek(q) == [url |-> Head(q), queue |-> q]

\* URLFrontier.get on a non-empty queue: deque.popleft()
FrontierGet(q) == [url |-> Head(q), queue |-> Tail(q)]

\* URLFrontier.is_empty
is_empty(q) == Len(q) = 0

\* URLFrontier.size
size(q) == Len(q)

-----------------------------------------------------------------------------
(* urllib.parse, as far as the crawler uses it.  Not modelled: percent      *)
(* escapes, ';' parameters and '.'/'..' path segments, which no URL of the  *)
(* modelled sites contains.                                                 *)

SchemeChars == "abcdefghijklmnopqrstuvwxyzABCDEFGHIJKLMNOPQRSTUVWXYZ0123456789+-."

AllIn(s0, chars) == \A s \in {s0} : \A k \in 1..Len(s) : Contains(chars, SubSeq(s, k, k))

\* the least index of s holding one of chars, 0 when none does
FirstOf(s0, chars) ==
    Only({Least({i \in 1..Len(s) : Contains(chars, SubSeq(s, i, i))}) : s \in {s0}})

\* s cut at index k: <<s[:k-1], s[k-1+skip:]>>, and <<s, "">> when k = 0
Cut(s0, k0, skip) ==
    Only({IF k = 0 THEN <<s, "">> ELSE <<Before(s, k), From(s, k + skip)>> :
            s \in {s0}, k \in {k0}})

\* urlsplit, the scheme: <<scheme, rest>>
SplitScheme(url0) ==
    Only({IF /\ i > 1
             /\ Contains(Upper \o Lower, SubSeq(url, 1, 1))
             /\ AllIn(Before(url, i), SchemeChars)
          THEN <<lower(Before(url, i)), From(url, i + 1)>>
          ELSE <<"", url>> : url \in {url0}, i \in {Find(url0, ":")}})

\* urlsplit, the network location: <<netloc, rest>>
SplitNetloc(rest0) ==
    Only({IF ~StartsWith(rest, "//") THEN <<"", rest>>
          ELSE Only({IF delim = 0 THEN <<after, "">>
                     ELSE <<Before(after, delim), From(after, delim)>> :
                        after \in {From(rest, 3)}, delim \in {FirstOf(From(rest, 3), "/?#")}})
          : rest \in {rest0}})

\* urlparse(url); bad is its ValueError("Invalid IPv6 URL")
urlparse(url) ==
    Only({Only({Only({Only({
        [scheme |-> s1[1], netloc |-> s2[1], path |-> s4[1], query |-> s4[2],
         fragment |-> s3[2], bad |-> Contains(s2[1], "[") # Contains(s2[1], "]")]
        : s4 \in {Cut(s3[1], Find(s3[1], "?"), 1)}})
        : s3 \in {Cut(s2[2], Find(s2[2], "#"), 1)}})
        : s2 \in {SplitNetloc(s1[2])}})
        : s1 \in {SplitScheme(url)}})

\* urlunparse for the schemes that use a network location
urlunparse(scheme, netloc, path0, query0, fragment0) ==
    Only({(IF Len(scheme) > 0 THEN scheme \o ":" ELSE "")
            \o "//" \o netloc
            \o (IF Len(path) > 0 /\ ~StartsWith(path, "/") THEN "/" \o path ELSE path)
            \o (IF Len(query) > 0 THEN "?" \o query ELSE "")
            \o (IF Len(fragment) > 0 THEN "#" \o fragment ELSE "")
          : path \in {path0}, query \in {query0}, fragment \in {fragment0}})

UsesRelative == {"http", "https", "ftp", "file", ""}

\* urljoin(base, url): [bad |-> TRUE] when it raises ValueError
urljoin(base0, url0) ==
    Only({Only({
        IF Len(url) = 0 THEN [bad |-> FALSE, url |-> base]
        ELSE IF b.bad \/ u.bad THEN [bad |-> TRUE, url |-> ""]
        ELSE IF scheme # b.scheme \/ scheme \notin UsesRelative THEN [bad |-> FALSE, url |-> url]
        ELSE IF Len(u.netloc) > 0
             THEN [bad |-> FALSE,
                   url |-> urlunparse(scheme, u.netloc, u.path, u.query, u.fragment)]
        ELSE IF Len(u.path) = 0
             THEN [bad |-> FALSE,
                   url |-> urlunparse(scheme, b.netloc, b.path,
                                      IF Len(u.query) = 0 THEN b.query ELSE u.query,
                                      u.fragment)]
        ELSE [bad |-> FALSE,
              url |-> urlunparse(scheme, b.netloc,
                                 IF StartsWith(u.path, "/") THEN u.path
                                 ELSE Before(b.path, RFind(b.path, "/")) \o "/" \o u.path,
                                 u.query, u.fragment)]
        : scheme \in {IF u.scheme = "" THEN b.scheme ELSE u.scheme}})
        : base \in {base0}, url \in {url0}, b \in {urlparse(base0)}, u \in {urlparse(url0)}})

RECURSIVE Split(_, _)
\* Python: s.split(sep) for a one-character sep
Split(s0, sep) ==
    Only({IF k = 0 THEN <<s>> ELSE <<Before(s, k)>> \o Split(From(s, k + 1), sep)
          : s \in {s0}, k \in {Find(s0, sep)}})

\* the keys of parse_qs(query): blank values are dropped
QueryKeys(query) ==
    UNION {IF c[2] # "" THEN {c[1]} ELSE {} :
             c \in {Cut(pair, Find(pair, "="), 1) : pair \in {Split(query, "&")[k] :
                                                      k \in 1..Len(Split(query, "&"))}}}

-----------------------------------------------------------------------------
(* re.search of the patterns the crawlers hold *)

AlnumDash == Upper \o Lower \o Digits \o "-"

\* the pattern  lit \d+  : lit followed by a digit
LitDigits(s0, lit) ==
    \E s \in {s0} : \E i \in Occurrences(s, lit) :
        i + Len(lit) <= Len(s) /\ IsDigit(SubSeq(s, i + Len(lit), i + Len(lit)))

\* the pattern  lit \d+ $  : s ends with lit and one or more digits
LitDigitsEnd(s0, lit) ==
    \E s \in {s0} : \E d \in 1..Len(s) :
        /\ AllIn(From(s, d), Digits)
        /\ EndsWith(Before(s, d), lit)

\* the pattern  /fashion/[^/]+/p/
FashionP(s0) ==
    \E s \in {s0} : \E i \in Occurrences(s, "/fashion/") :
        \E rest \in {From(s, i + 9)} : \E k \in {Find(rest, "/")} :
            k > 1 /\ StartsWith(From(rest, k), "/p/")

\* the text after  [^/]+/  at the beginning of r, as a set
AfterSegment(r0) ==
    UNION {IF k > 1 THEN {From(r, k + 1)} ELSE {} : r \in {r0}, k \in {Find(r0, "/")}}

\* the texts after a match of the prefix  /[^/]+/[^/]+/  in s
AfterTwoSegments(s0) ==
    UNION {AfterSegment(r2) :
             r2 \in UNION {AfterSegment(From(s0, i + 1)) : i \in Occurrences(s0, "/")}}

\* the pattern  /[^/]+/[^/]+/[a-zA-Z0-9-]+-[0-9]+\.html
WestsideHtml(s) ==
    \E t \in AfterTwoSegments(s) :
        \E dot \in Occurrences(t, ".html") : \E d \in 3..(dot - 1) :
            /\ AllIn(SubSeq(t, d, dot - 1), Digits)
            /\ SubSeq(t, d - 1, d - 1) = "-"
            /\ AllIn(Before(t, d - 1), AlnumDash)

\* the pattern  /[^/]+/[^/]+/[^/]+\?productid=
WestsideQuery(s) ==
    \E t \in AfterTwoSegments(s) :
        \E q \in Occurrences(t, "?productid=") : q >= 2 /\ ~Contains(Before(t, q), "/")

Spaces == " \t\n"

RECURSIVE SkipSpaces(_)
\* the pattern \s* : s without its leading white space
SkipSpaces(s0) ==
    Only({IF Len(s) > 0 /\ Contains(Spaces, SubSeq(s, 1, 1)) THEN SkipSpaces(From(s, 2)) ELSE s
          : s \in {s0}})

\* the texts after a match of  key \s* : \s*  in s
AfterKeyColon(s0, key) ==
    {SkipSpaces(From(r, 2)) :
        r \in {r1 \in {SkipSpaces(From(s0, i + Len(key))) : i \in Occurrences(s0, key)} :
                 StartsWith(r1, ":")}}

\* the pattern  "productId"\s*:\s*"[^"]+
ProductIdJson(s) ==
    \E t \in AfterKeyColon(s, "\"productId\"") :
        /\ StartsWith(t, "\"")
        /\ Len(t) >= 2
        /\ SubSeq(t, 2, 2) # "\""

\* the pattern  "product"\s*:\s*{
ProductJson(s) == \E t \in AfterKeyColon(s, "\"product\"") : StartsWith(t, "{")

-----------------------------------------------------------------------------
(* The parsed document (BeautifulSoup): a page is the markup text html and  *)
(* its elements els in document order.  An element is                      *)
(* [tag, parent, string, attrs]: parent is the index of the enclosing       *)
(* element (0 at the top), string is Tag.string ("" for None) and attrs is  *)
(* the set of <<name, value>> pairs.                                        *)

\* Tag.has_attr(name)
Has(e, name) == \E a \in e.attrs : a[1] = name

\* Tag.get(name), "" standing for None: the code only tests it for truth
Get(e, name) == IF Has(e, name) THEN (CHOOSE a \in e.attrs : a[1] = name)[2] ELSE ""

RECURSIVE Inside(_, _, _)
\* element j lies inside element i
Inside(els, j, i) ==
    /\ j > 0
    /\ els[j].parent > 0
    /\ (els[j].parent = i \/ Inside(els, els[j].parent, i))

\* soup.find_all(tags): the indices, in document order
FindAll(els, tags) == {i \in 1..Len(els) : els[i].tag \in tags}

\* element.find('a'): the first anchor inside element i, 0 for None
FindAnchorIn(els, i) == Least({j \in FindAll(els, {"a"}) : Inside(els, j, i)})

\* the indices of a set in increasing order
RECURSIVE InOrder(_)
InOrder(I0) ==
    Only({IF I = {} THEN <<>> ELSE <<Least(I)>> \o InOrder(I \ {Least(I)}) : I \in {I0}})

-----------------------------------------------------------------------------
(* crawler/product_identifier.py *)

product_url_patterns == <<"/product/", "/p/", "/item/", "/products/", "/pd/", "/buy/", "/shop/">>

product_query_params == <<"product", "productId", "pid", "itemId", "sku", "productCode">>

product_indicators ==
    <<"add to cart", "add to bag", "buy now", "product details", "product description",
      "specifications", "shipping", "size chart">>

\* The mutant of _check_url_pattern that forgets the path patterns.
CheckUrlPatternQueryOnly(url) ==
    \E k \in 1..Len(product_query_params) :
        product_query_params[k] \in QueryKeys(urlparse(url).query)

\* ProductIdentifier._check_url_pattern
check_url_pattern(url) ==
    \/ \E k \in 1..Len(product_url_patterns) : Contains(url, product_url_patterns[k])
    \/ \E k \in 1..Len(product_query_params) :
          product_query_params[k] \in QueryKeys(urlparse(url).query)

\* _check_page_content, lines 84-91: the number of indicators in html.lower()
indicator_count(html) ==
    Cardinality({k \in 1..Len(product_indicators) : Contains(lower(html), product_indicators[k])})

\* _check_page_content, lines 94-95: elements whose class matches price|cost|mrp|amount
price_elements(els) ==
    {i \in FindAll(els, {"span", "div", "p"}) :
        \E w \in {"price", "cost", "mrp", "amount"} : Contains(lower(Get(els[i], "class")), w)}

\* _check_page_content, lines 100-101: elements whose class matches qty|quantity|size|option
qty_elements(els) ==
    {i \in FindAll(els, {"select", "input", "div"}) :
        \E w \in {"qty", "quantity", "size", "option"} : Contains(lower(Get(els[i], "class")), w)}

\* The mutant of _check_page_content that asks for a price element and a
\* quantity element together.
CheckPageContentBoth(page) ==
    IF indicator_count(page.html) >= 2 THEN TRUE
    ELSE IF /\ price_elements(page.els) # {}
            /\ qty_elements(page.els) # {}
            /\ indicator_count(page.html) > 0 THEN TRUE
    ELSE FALSE

\* ProductIdentifier._check_page_content
check_page_content(page) ==
    IF indicator_count(page.html) >= 2 THEN TRUE
    ELSE IF price_elements(page.els) # {} /\ indicator_count(page.html) > 0 THEN TRUE
    ELSE IF qty_elements(page.els) # {} /\ indicator_count(page.html) > 0 THEN TRUE
    ELSE FALSE

\* ProductIdentifier._check_metadata
check_metadata(page) ==
    LET els == page.els
        schema == Least({i \in FindAll(els, {"script"}) :
                            Get(els[i], "type") = "application/ld+json"})
        og_type == Least({i \in FindAll(els, {"meta"}) : Get(els[i], "property") = "og:type"})
        product_meta_tags ==
            {i \in FindAll(els, {"meta"}) :
                \/ Contains(Get(els[i], "property"), "product:")
                \/ Contains(Get(els[i], "property"), "og:price")}
    IN  IF /\ schema # 0
           /\ Len(els[schema].string) > 0
           /\ Contains(els[schema].string, "\"@type\"")
           /\ \/ Contains(els[schema].string, "\"Product\"")
              \/ Contains(lower(els[schema].string), "\"product\"")
        THEN TRUE
        ELSE IF og_type # 0 /\ Get(els[og_type], "content") = "product" THEN TRUE
        ELSE IF product_meta_tags # {} THEN TRUE
        ELSE FALSE

\* The mutant of is_product_page that stops after the content check.
IsProductPageNoMetadata(url, page) ==
    IF check_url_pattern(url) THEN TRUE
    ELSE IF check_page_content(page) THEN TRUE
    ELSE FALSE

\* ProductIdentifier.is_product_page
is_product_page(url, page) ==
    IF check_url_pattern(url) THEN TRUE
    ELSE IF check_page_content(page) THEN TRUE
    ELSE IF check_metadata(page) THEN TRUE
    ELSE FALSE

-----------------------------------------------------------------------------
(* main.py: the crawler class of each domain *)

Strategies == {"generic", "virgio", "tatacliq", "nykaa", "westside"}

\* main.py, crawler_map (lines 52-57); any other domain gets the base Crawler
DomainOf(st) ==
    CASE st = "virgio" -> "https://www.virgio.com/"
      [] st = "tatacliq" -> "https://www.tatacliq.com/"
      [] st = "nykaa" -> "https://nykaafashion.com/"
      [] st = "westside" -> "https://www.westside.com/"
      [] OTHER -> "https://shop.example/"

-----------------------------------------------------------------------------
(* should_crawl of the base crawler and of its overrides *)

StaticExtensions == {".css", ".js", ".jpg", ".jpeg", ".png", ".gif", ".svg"}

\* should_crawl raises ValueError where urlparse does
should_crawl_raises(st, url) == urlparse(url).bad \/ urlparse(DomainOf(st)).bad

\* The mutant of base_should_crawl that admits every host.
BaseShouldCrawlAnyHost(st, url) ==
    IF Len(urlparse(url).fragment) > 0 THEN FALSE
    ELSE IF \E x \in StaticExtensions : EndsWith(url, x) THEN FALSE
    ELSE TRUE

\* Crawler.should_crawl
base_should_crawl(st, url) ==
    IF urlparse(url).netloc # urlparse(DomainOf(st)).netloc THEN FALSE
    ELSE IF Len(urlparse(url).fragment) > 0 THEN FALSE
    ELSE IF \E x \in StaticExtensions : EndsWith(url, x) THEN FALSE
    ELSE TRUE

nykaa_excluded_paths ==
    {"/login", "/register", "/wishlist", "/cart", "/checkout", "/account", "/help",
     "/policy", "/about", "/terms", "/logout", "/customer-service", "/privacy"}

nykaa_priority_paths ==
    {"/category/", "/products/", "/fashion/", "/prod/", "/collection/", "/brands/"}

tatacliq_excluded_paths ==
    {"/login", "/register", "/wishlist", "/cart", "/checkout", "/account", "/help",
     "/policy", "/about", "/terms", "/logout", "/customer-service"}

westside_excluded_paths ==
    {"/login", "/register", "/wishlist", "/checkout", "/search", "/cart", "/customer",
     "/store-locator"}

\* The mutant of nykaa_should_crawl that looks for the priority paths first.
NykaaShouldCrawlPriorityFirst(st, url) ==
    IF Len(url) = 0 \/ ~base_should_crawl(st, url) THEN FALSE
    ELSE IF \E x \in nykaa_priority_paths : Contains(url, x) THEN TRUE
    ELSE IF \E x \in nykaa_excluded_paths : Contains(url, x) THEN FALSE
    ELSE TRUE

\* The mutant of nykaa_should_crawl that admits the priority paths only.
NykaaShouldCrawlPriorityOnly(st, url) ==
    IF Len(url) = 0 \/ ~base_should_crawl(st, url) THEN FALSE
    ELSE IF \E x \in nykaa_excluded_paths : Contains(url, x) THEN FALSE
    ELSE IF \E x \in nykaa_priority_paths : Contains(url, x) THEN TRUE
    ELSE FALSE

\* NykaaCrawler.should_crawl; url = "" stands for None as well
nykaa_should_crawl(st, url) ==
    IF Len(url) = 0 \/ ~base_should_crawl(st, url) THEN FALSE
    ELSE IF \E x \in nykaa_excluded_paths : Contains(url, x) THEN FALSE
    ELSE IF \E x \in nykaa_priority_paths : Contains(url, x) THEN TRUE
    ELSE TRUE

\* The mutant of tatacliq_should_crawl that does not call super().should_crawl.
TatacliqShouldCrawlNoSuper(st, url) ==
    IF \E x \in tatacliq_excluded_paths : Contains(url, x) THEN FALSE
    ELSE TRUE

\* TatacliqCrawler.should_crawl
tatacliq_should_crawl(st, url) ==
    IF ~base_should_crawl(st, url) THEN FALSE
    ELSE IF \E x \in tatacliq_excluded_paths : Contains(url, x) THEN FALSE
    ELSE TRUE

\* WestsideCrawler.should_crawl
westside_should_crawl(st, url) ==
    IF ~base_should_crawl(st, url) THEN FALSE
    ELSE IF \E x \in westside_excluded_paths : Contains(url, x) THEN FALSE
    ELSE TRUE

\* self.should_crawl, as the class of the strategy resolves it
should_crawl(st, url) ==
    CASE st = "nykaa" -> nykaa_should_crawl(st, url)
      [] st = "tatacliq" -> tatacliq_should_crawl(st, url)
      [] st = "westside" -> westside_should_crawl(st, url)
      [] OTHER -> base_should_crawl(st, url)

-----------------------------------------------------------------------------
(* extract_links of the base crawler and of its overrides.  A list of links *)
(* is [bad, links]: bad when urljoin raised ValueError while it was built.  *)

\* Crawler.extract_links; soup.find_all('a', href=True) is the first line of
\* the test, the loop's "if not href or href.startswith('javascript:')" the rest
base_extract_links(els, base_url) ==
    Only({[bad |-> \E k \in 1..Len(joined) : joined[k].bad,
           links |-> [k \in 1..Len(joined) |-> joined[k].url]]
          : joined \in {[k \in 1..Len(anchors) |-> urljoin(base_url, Get(els[anchors[k]], "href"))]
                        : anchors \in {InOrder({i \in FindAll(els, {"a"}) :
                                         /\ Has(els[i], "href")
                                         /\ Len(Get(els[i], "href")) > 0
                                         /\ ~StartsWith(Get(els[i], "href"), "javascript:")})}}})

\* NykaaCrawler._normalize_url; "" stands for None
nykaa_normalize_url(base_url, href) ==
    IF Len(href) = 0 THEN ""
    ELSE IF StartsWith(href, "//") THEN "https:" \o href
    ELSE IF StartsWith(href, "/")
         THEN urlparse(base_url).scheme \o "://" \o urlparse(base_url).netloc \o href
    ELSE IF ~StartsWith(href, "http") THEN urljoin(base_url, href).url
    ELSE href

\* TatacliqCrawler._normalize_url and WestsideCrawler._normalize_url, for the
\* hrefs that reach them; Westside's last test is startswith http:// or https://
site_normalize_url(st, href) ==
    IF StartsWith(href, "//") THEN "https:" \o href
    ELSE IF StartsWith(href, "/") THEN rstrip(DomainOf(st), "/") \o href
    ELSE IF \/ st = "tatacliq" /\ ~StartsWith(href, "http")
            \/ st = "westside" /\ ~(StartsWith(href, "http://") \/ StartsWith(href, "https://"))
         THEN rstrip(DomainOf(st), "/") \o "/" \o lstrip(href, "/")
    ELSE href

\* NykaaCrawler.extract_links, lines 94-107: the links of one card
nykaa_card_links(els, i, base_url) ==
    LET fromAttr(name) == IF Has(els[i], name)
                          THEN <<nykaa_normalize_url(base_url, Get(els[i], name))>> ELSE <<>>
    IN  Only({IF a # 0 /\ Len(Get(els[a], "href")) > 0
              THEN <<nykaa_normalize_url(base_url, Get(els[a], "href"))>> ELSE <<>>
              : a \in {FindAnchorIn(els, i)}})
        \o fromAttr("data-url") \o fromAttr("data-href") \o fromAttr("data-product-url")

\* TatacliqCrawler.extract_links, lines 99-108: the links of one card
tatacliq_card_links(st, els, i) ==
    Only({IF Len(link) > 0 THEN <<site_normalize_url(st, link)>> ELSE <<>>
          : link \in {IF Len(own) = 0 /\ els[i].tag = "div" /\ a # 0
                      THEN Get(els[a], "href") ELSE own
                      : own \in {Get(els[i], "href")}, a \in {FindAnchorIn(els, i)}}})

\* WestsideCrawler.extract_links, lines 36-43: the links of one card
westside_card_links(st, els, i) ==
    Only({IF a # 0 /\ Len(Get(els[a], "href")) > 0
          THEN Only({IF Len(href) > 0 THEN <<site_normalize_url(st, href)>> ELSE <<>>
                     : href \in {IF Get(els[a], "href") = "#"
                                 THEN Get(els[a], "data-product-url")
                                 ELSE Get(els[a], "href")}})
          ELSE <<>>
          : a \in {FindAnchorIn(els, i)}})

\* the cards of a page, by the class test of each override
cards(st, els) ==
    CASE st = "nykaa" ->
            {i \in FindAll(els, {"div", "li", "article"}) :
                \E t \in {"product-card", "plp-card", "product-tile", "product-box",
                          "product-item"} : Contains(lower(Get(els[i], "class")), t)}
      [] st = "tatacliq" ->
            {i \in FindAll(els, {"div", "a"}) : Contains(lower(Get(els[i], "class")), "product")}
      [] st = "westside" ->
            {i \in FindAll(els, {"div"}) :
                \/ Contains(Get(els[i], "class"), "product-item")
                \/ Contains(Get(els[i], "class"), "product-tile")}
      [] OTHER -> {}

RECURSIVE card_links(_, _, _, _)
\* the links the override's loop over the cards appends
card_links(st, els, order0, base_url) ==
    Only({
    IF order = <<>> THEN <<>>
    ELSE (CASE st = "nykaa" -> nykaa_card_links(els, Head(order), base_url)
            [] st = "tatacliq" -> tatacliq_card_links(st, els, Head(order))
            [] st = "westside" -> westside_card_links(st, els, Head(order))
            [] OTHER -> <<>>)
         \o card_links(st, els, Tail(order), base_url)
    : order \in {order0}})

\* self.extract_links, as the class of the strategy resolves it
extract_links(st, els, base_url) ==
    Only({[bad |-> base.bad,
           links |-> IF base.bad THEN <<>>
                     ELSE base.links \o card_links(st, els, InOrder(cards(st, els)), base_url)]
          : base \in {base_extract_links(els, base_url)}})

-----------------------------------------------------------------------------
(* The product detection of the site-specific process_url overrides *)

\* VirgioCrawler.process_url, line 12
virgio_pattern(url) ==
    /\ Contains(url, "/collection/") \/ Contains(url, "/category/")
    /\ LitDigitsEnd(url, "-p")

\* WestsideCrawler.westside_product_patterns
westside_pattern(url) ==
    \/ Contains(url, "/product/")
    \/ WestsideHtml(url)
    \/ WestsideQuery(url)

\* NykaaCrawler.nykaa_product_patterns
nykaa_pattern(url) ==
    \/ Contains(url, "/prod/")
    \/ Contains(url, "/products/")
    \/ Contains(url, "productId=")
    \/ LitDigits(url, "/p/")
    \/ FashionP(url)
    \/ LitDigitsEnd(url, "-p")

\* TatacliqCrawler.tatacliq_product_patterns
tatacliq_pattern(url) ==
    \/ LitDigits(url, "/p-")
    \/ Contains(url, "pdp/")
    \/ LitDigits(url, "-p-")
    \/ Contains(url, "/product-details/")

\* find_all(['button', 'a'], string=...): the elements whose string holds "add to"
add_buttons(els) ==
    {i \in FindAll(els, {"button", "a"}) : Contains(lower(els[i].string), "add to")}

\* NykaaCrawler._is_product_page
nykaa_is_product_page(page) ==
    LET els == page.els
        price == {i \in FindAll(els, {"div", "span"}) :
                     \/ Contains(lower(Get(els[i], "class")), "price")
                     \/ Contains(lower(Get(els[i], "class")), "mrp")}
        size_selectors == {i \in FindAll(els, {"div", "ul"}) :
                              Contains(lower(Get(els[i], "class")), "size")}
    IN  IF add_buttons(els) # {} THEN TRUE
        ELSE IF Cardinality(price) > 1 THEN TRUE
        ELSE IF size_selectors # {} THEN TRUE
        ELSE IF \/ Contains(page.html, "itemprop=\"product\"")
                \/ Contains(page.html, "\"@type\":\"Product\"") THEN TRUE
        ELSE FALSE

\* TatacliqCrawler._check_product_metadata
tatacliq_check_product_metadata(page) ==
    LET els == page.els
        product_meta == {i \in FindAll(els, {"meta"}) :
                            /\ Get(els[i], "property") = "og:type"
                            /\ Get(els[i], "content") = "product"}
        price == {i \in FindAll(els, {"span", "div"}) :
                     Contains(lower(Get(els[i], "class")), "price")}
    IN  IF product_meta # {} THEN TRUE
        ELSE IF Cardinality(price) > 1 THEN TRUE
        ELSE IF add_buttons(els) # {} THEN TRUE
        ELSE FALSE

\* TatacliqCrawler._check_product_scripts
tatacliq_check_product_scripts(html) ==
    \/ ProductIdJson(html)
    \/ ProductJson(html)
    \/ Contains(html, "productDetails")
    \/ Contains(html, "pdpPageData")

\* whether process_url, given the page of a 200 response, records url as a product
detects_product(st, url, page) ==
    CASE st = "nykaa" -> nykaa_pattern(url) \/ nykaa_is_product_page(page)
      [] st = "tatacliq" ->
            \/ tatacliq_pattern(url)
            \/ tatacliq_check_product_metadata(page)
            \/ tatacliq_check_product_scripts(page.html)
      [] OTHER -> is_product_page(url, page)

\* what VirgioCrawler and WestsideCrawler run after super().process_url returned
detects_after_super(st, url) ==
    CASE st = "virgio" -> virgio_pattern(url)
      [] st = "westside" -> westside_pattern(url)
      [] OTHER -> FALSE

-----------------------------------------------------------------------------
(* The pages the modelled sites serve.  Any URL may answer with any of      *)
(* them.  All hrefs are relative to the site root but one foreign link.     *)

E(tag, parent, string, attrs) ==
    [tag |-> tag, parent |-> parent, string |-> string, attrs |-> attrs]

Pages == <<
    \* 1: a home page linking to a product, spec.md section 8
    [html |-> "<a href=\"/p/123\">Shoes</a><p>Add to Cart</p>",
     els |-> <<E("a", 0, "Shoes", {<<"href", "/p/123">>}),
               E("p", 0, "Add to Cart", {})>>],
    \* 2: empty markup
    [html |-> "", els |-> <<>>],
    \* 3: a listing with a duplicate of /p/123, an /item/ page, a foreign link,
    \*    a script link and a link into the page itself
    [html |-> "<a href=\"/p/123/\">1</a><a href=\"/item/9\">2</a>"
                \o "<a href=\"https://other.example/x\">3</a>"
                \o "<a href=\"javascript:void(0)\">4</a><a href=\"#top\">5</a>",
     els |-> <<E("a", 0, "1", {<<"href", "/p/123/">>}),
               E("a", 0, "2", {<<"href", "/item/9">>}),
               E("a", 0, "3", {<<"href", "https://other.example/x">>}),
               E("a", 0, "4", {<<"href", "javascript:void(0)">>}),
               E("a", 0, "5", {<<"href", "#top">>})>>],
    \* 4: a product page by its content: two indicator phrases
    [html |-> "<button>Add to Bag</button><div class=\"size-chart\">Size Chart</div>"
                \o "<a href=\"/product/5\">more</a>",
     els |-> <<E("button", 0, "Add to Bag", {}),
               E("div", 0, "Size Chart", {<<"class", "size-chart">>}),
               E("a", 0, "more", {<<"href", "/product/5">>})>>],
    \* 5: a product page by its structured data alone
    [html |-> "<script type=\"application/ld+json\">{\"@type\": \"Product\"}</script>",
     els |-> <<E("script", 0, "{\"@type\": \"Product\"}",
                 {<<"type", "application/ld+json">>})>>],
    \* 6: one indicator phrase and a price element, and a link to the cart
    [html |-> "<span class=\"Price\">10</span>free shipping<a href=\"/cart\">Cart</a>",
     els |-> <<E("span", 0, "10", {<<"class", "Price">>}),
               E("a", 0, "Cart", {<<"href", "/cart">>})>>],
    \* 7: a product card holding an anchor and a data attribute, and a stylesheet
    [html |-> "<div class=\"product-item\" data-url=\"/prod/7\">"
                \o "<a href=\"/products/cart/\">x</a></div><a href=\"/a.css/\">css</a>",
     els |-> <<E("div", 0, "", {<<"class", "product-item">>, <<"data-url", "/prod/7">>}),
               E("a", 1, "x", {<<"href", "/products/cart/">>}),
               E("a", 0, "css", {<<"href", "/a.css/">>})>>],
    \* 8: Open Graph metadata and a link to a category page
    [html |-> "<meta property=\"og:type\" content=\"product\">"
                \o "<a href=\"/category/x-p12\">x</a>",
     els |-> <<E("meta", 0, "", {<<"property", "og:type">>, <<"content", "product">>}),
               E("a", 0, "x", {<<"href", "/category/x-p12">>})>>],
    \* 9: two indicator phrases and a link urljoin rejects
    [html |-> "Buy Now, free Shipping<a href=\"/item/9\">9</a><a href=\"http://[\">bad</a>",
     els |-> <<E("a", 0, "9", {<<"href", "/item/9">>}),
               E("a", 0, "bad", {<<"href", "http://[">>})>>]
  >>

-----------------------------------------------------------------------------
(* crawler/base_crawler.py: process_url.  What a page makes of a URL does   *)
(* not depend on the state of the crawl, so it is computed once for every   *)
(* URL the crawl of a site can hold (Scanned, Detected) and looked up by    *)
(* the actions.                                                             *)

RECURSIVE Admissible(_, _)
\* process_url, lines 88-89: the links for which should_crawl is true, up to
\* the first for which it raises; raised ends the loop
Admissible(st, links0) ==
    Only({
    IF links = <<>> THEN [links |-> <<>>, raised |-> FALSE]
    ELSE IF ~(st = "nykaa" /\ Len(Head(links)) = 0) /\ should_crawl_raises(st, Head(links))
         THEN [links |-> <<>>, raised |-> TRUE]
    ELSE Only({[links |-> (IF should_crawl(st, Head(links)) THEN <<Head(links)>> ELSE <<>>)
                            \o rest.links,
                raised |-> rest.raised]
               : rest \in {Admissible(st, Tail(links))}})
    : links \in {links0}})

\* process_url, lines 87-89: links = self.extract_links(soup, url) and the
\* should_crawl test of each; bad when extract_links raised
Scan(st, url, page) ==
    Only({IF ex.bad THEN [links |-> <<>>, raised |-> TRUE] ELSE Admissible(st, ex.links)
          : ex \in {extract_links(st, page.els, url)}})

Range(f) == {f[k] : k \in DOMAIN f}

RECURSIVE Closure(_, _)
\* the URLs a crawl of the site can pass to the frontier, before and after
\* its normalization
Closure(st, S0) ==
    Only({Only({IF S \cup found \cup {Normalize(u) : u \in found} = S THEN S
                ELSE Closure(st, S \cup found \cup {Normalize(u) : u \in found})
                : found \in {UNION {Range(Scan(st, u, Pages[p]).links) :
                                      u \in S, p \in 1..Len(Pages)}}})
          : S \in {S0}})

SiteUrls == [st \in Strategies |-> Closure(st, {DomainOf(st), Normalize(DomainOf(st))})]

Scanned == [st \in Strategies |->
              [u \in SiteUrls[st] |-> [p \in 1..Len(Pages) |-> Scan(st, u, Pages[p])]]]

Detected == [st \in Strategies |->
               [u \in SiteUrls[st] |-> [p \in 1..Len(Pages) |-> detects_product(st, u, Pages[p])]]]

DetectedAfterSuper == [st \in Strategies |->
                         [u \in SiteUrls[st] |-> detects_after_super(st, u)]]

RECURSIVE AddAll(_, _, _)
\* process_url, line 90: self.frontier.add(link) for each admissible link
AddAll(links, q, seen) ==
    IF links = <<>> THEN [queue |-> q, seen |-> seen]
    ELSE Only({AddAll(Tail(links), f.queue, f.seen) : f \in {FrontierAdd(q, seen, Head(links))}})

\* The mutant of OnPage that keeps the latest product URL only.
OnPageLatestOnly(st, url, p, prods, q, seen) ==
    LET sc == Scanned[st][url][p]
        r == AddAll(sc.links, q, seen)
    IN  [product_urls |-> IF Detected[st][url][p] THEN {url} ELSE prods,
         queue |-> r.queue, seen |-> r.seen,
         outcome |-> IF sc.raised THEN "exception" ELSE "ok"]

\* process_url from html = await response.text() on (lines 78-90, and the same
\* lines of the Nykaa and Tatacliq overrides), for page p: an exception ends
\* it where it is raised and is caught by the except clause
OnPage(st, url, p, prods, q, seen) ==
    LET sc == Scanned[st][url][p]
        r == AddAll(sc.links, q, seen)
    IN  [product_urls |-> IF Detected[st][url][p] THEN prods \cup {url} ELSE prods,
         queue |-> r.queue, seen |-> r.seen,
         outcome |-> IF sc.raised THEN "exception" ELSE "ok"]

\* VirgioCrawler.process_url, lines 12-14, and WestsideCrawler.process_url,
\* lines 22-26: what follows super().process_url, however that ended
AfterSuper(st, url, prods, how) ==
    IF DetectedAfterSuper[st][url] THEN prods \cup {url} ELSE prods

-----------------------------------------------------------------------------
(* crawler/base_crawler.py: crawl and worker.  The tasks run on one asyncio *)
(* event loop: a task keeps the loop from the moment it is resumed until    *)
(* its next await (session.get, response.text, asyncio.sleep) or its end.   *)
(* The worker is modelled statement by statement, pc naming the line it is  *)
(* about to run; the order in which the loop resumes ready tasks is left    *)
(* open.                                                                    *)

MaxBudget == 3
MaxWorkers == 2

Workers == DOMAIN pc

\* the positions between two awaits: the task there holds the event loop
OnLoop == {"L48", "L50", "L53", "L56", "L59"}

\* The mutant of the scheduling in which tasks are preempted at any statement.
CanRunAlways(w) == TRUE

\* the event loop resumes task w only when no other task holds it
CanRun(w) == \A v \in Workers \ {w} : pc[v] \notin OnLoop

\* Crawler.__init__ and URLFrontier.__init__, for the arguments main.py passes
Init ==
    /\ strategy \in Strategies
    /\ max_urls \in 0..MaxBudget
    /\ concurrency \in 0..MaxWorkers
    /\ phase = "idle"
    /\ queue = <<>>
    /\ seen_urls = {}
    /\ visited_urls = {}
    /\ product_urls = {}
    /\ pc = <<>>
    /\ cur = <<>>
    /\ fetches = <<>>
    /\ outcome = <<>>
    /\ calls = <<>>
    /\ cin = <<>>
    /\ cout = <<>>

harness == <<calls, cin, cout>>
config == <<strategy, max_urls, concurrency>>

\* crawl, line 29: self.frontier.add(self.domain)
Seed ==
    /\ phase = "idle"
    /\ LET f == FrontierAdd(queue, seen_urls, DomainOf(strategy))
       IN  queue' = f.queue /\ seen_urls' = f.seen
    /\ phase' = "seeded"
    /\ UNCHANGED <<config, visited_urls, product_urls, pc, cur, fetches, outcome, harness>>

\* crawl, lines 36-41: the tasks are created and crawl awaits gather
Launch ==
    /\ phase = "seeded"
    /\ pc' = [w \in 1..concurrency |-> "start"]
    /\ cur' = [w \in 1..concurrency |-> ""]
    /\ outcome' = [w \in 1..concurrency |-> [how |-> "none", page |-> 0]]
    /\ phase' = "running"
    /\ UNCHANGED <<config, queue, seen_urls, visited_urls, product_urls, fetches, harness>>

\* The mutant of While that waits for the frontier to fill instead of ending
\* the task.
WhileBlocking(w) ==
    /\ pc[w] \in {"start", "sleep", "L48"}
    /\ CanRun(w)
    /\ ~is_empty(queue)
    /\ pc' = [pc EXCEPT ![w] = "L50"]
    /\ cur' = [cur EXCEPT ![w] = ""]
    /\ outcome' = [outcome EXCEPT ![w] = [how |-> "none", page |-> 0]]
    /\ UNCHANGED <<config, phase, queue, seen_urls, visited_urls, product_urls, fetches, harness>>

\* worker, line 48: while not self.frontier.is_empty(); reached when the task
\* first runs, when its sleep is over and after continue
While(w) ==
    /\ pc[w] \in {"start", "sleep", "L48"}
    /\ CanRun(w)
    /\ pc' = [pc EXCEPT ![w] = IF is_empty(queue) THEN "done" ELSE "L50"]
    /\ cur' = [cur EXCEPT ![w] = ""]
    /\ outcome' = [outcome EXCEPT ![w] = [how |-> "none", page |-> 0]]
    /\ UNCHANGED <<config, phase, queue, seen_urls, visited_urls, product_urls, fetches, harness>>

\* The mutant of BudgetReached with an off-by-one comparison.
BudgetReachedOffByOne == Cardinality(visited_urls) > max_urls

\* worker, line 50: len(self.visited_urls) >= self.max_urls
BudgetReached == Cardinality(visited_urls) >= max_urls

\* worker, lines 50-51
Budget(w) ==
    /\ pc[w] = "L50"
    /\ CanRun(w)
    /\ pc' = [pc EXCEPT ![w] = IF BudgetReached THEN "done" ELSE "L53"]
    /\ UNCHANGED <<config, phase, queue, seen_urls, visited_urls, product_urls, cur, fetches,
                   outcome, harness>>

\* worker, line 53: url = self.frontier.get(); popleft on an empty deque raises
\* IndexError, which nothing in worker catches
Get_(w) ==
    /\ pc[w] = "L53"
    /\ CanRun(w)
    /\ IF is_empty(queue)
       THEN pc' = [pc EXCEPT ![w] = "raised"] /\ UNCHANGED <<queue, cur>>
       ELSE /\ queue' = FrontierGet(queue).queue
            /\ cur' = [cur EXCEPT ![w] = FrontierGet(queue).url]
            /\ pc' = [pc EXCEPT ![w] = "L56"]
    /\ UNCHANGED <<config, phase, seen_urls, visited_urls, product_urls, fetches, outcome, harness>>

\* worker, lines 56-57: skip if already visited
Visited(w) ==
    /\ pc[w] = "L56"
    /\ CanRun(w)
    /\ pc' = [pc EXCEPT ![w] = IF cur[w] \in visited_urls THEN "L48" ELSE "L59"]
    /\ UNCHANGED <<config, phase, queue, seen_urls, visited_urls, product_urls, cur, fetches,
                   outcome, harness>>

\* the counts of process_url calls, that of url one more
Count(f, url) == IF url \in DOMAIN f THEN [f EXCEPT ![url] = @ + 1] ELSE f @@ (url :> 1)

\* The mutant of Mark that calls process_url without marking the URL.
MarkForgets(w) ==
    /\ pc[w] = "L59"
    /\ CanRun(w)
    /\ fetches' = Count(fetches, cur[w])
    /\ pc' = [pc EXCEPT ![w] = "get"]
    /\ UNCHANGED <<config, phase, queue, seen_urls, visited_urls, product_urls, cur, outcome,
                   harness>>

\* worker, lines 59-62: mark the URL and call process_url, which runs to its
\* first await, session.get (line 73)
Mark(w) ==
    /\ pc[w] = "L59"
    /\ CanRun(w)
    /\ visited_urls' = visited_urls \cup {cur[w]}
    /\ fetches' = Count(fetches, cur[w])
    /\ pc' = [pc EXCEPT ![w] = "get"]
    /\ UNCHANGED <<config, phase, queue, seen_urls, product_urls, cur, outcome, harness>>

\* how session.get can end other than with a 200 response: another status, an
\* aiohttp.ClientError, or the timeout of the session
Failures == {"non200", "client_error", "timeout"}

\* The mutant of Response whose except clauses name aiohttp.ClientError only:
\* the timeout ends the task.
ResponseTimeoutEscapes(w) ==
    /\ pc[w] = "get"
    /\ CanRun(w)
    /\ \E how \in {"200"} \cup Failures :
          IF how = "200"
          THEN /\ pc' = [pc EXCEPT ![w] = "text"]
               /\ UNCHANGED <<product_urls, outcome>>
          ELSE /\ product_urls' = AfterSuper(strategy, cur[w], product_urls, how)
               /\ outcome' = [outcome EXCEPT ![w] = [how |-> how, page |-> 0]]
               /\ pc' = [pc EXCEPT ![w] = IF how = "timeout" THEN "raised" ELSE "sleep"]
    /\ UNCHANGED <<config, phase, queue, seen_urls, visited_urls, cur, fetches, harness>>

\* The mutant of Respond in which a URL whose fetch failed is queued again
\* and forgotten as visited.
RespondRetrying(w, hows) ==
    /\ pc[w] = "get"
    /\ CanRun(w)
    /\ \E how \in hows :
          IF how = "200"
          THEN /\ pc' = [pc EXCEPT ![w] = "text"]
               /\ UNCHANGED <<product_urls, outcome, queue, visited_urls>>
          ELSE /\ product_urls' = AfterSuper(strategy, cur[w], product_urls, how)
               /\ outcome' = [outcome EXCEPT ![w] = [how |-> how, page |-> 0]]
               /\ queue' = Append(queue, cur[w])
               /\ visited_urls' = visited_urls \ {cur[w]}
               /\ pc' = [pc EXCEPT ![w] = "sleep"]
    /\ UNCHANGED <<config, phase, seen_urls, cur, fetches, harness>>

\* process_url, lines 73-76 and 92-95: session.get ends, in one of the ways
\* hows; with status 200 the task goes on to await response.text(), otherwise
\* process_url returns (the Virgio and Westside overrides then run their
\* patterns) and the worker sleeps
Respond(w, hows) ==
    /\ pc[w] = "get"
    /\ CanRun(w)
    /\ \E how \in hows :
          IF how = "200"
          THEN /\ pc' = [pc EXCEPT ![w] = "text"]
               /\ UNCHANGED <<product_urls, outcome>>
          ELSE /\ product_urls' = AfterSuper(strategy, cur[w], product_urls, how)
               /\ outcome' = [outcome EXCEPT ![w] = [how |-> how, page |-> 0]]
               /\ pc' = [pc EXCEPT ![w] = "sleep"]
    /\ UNCHANGED <<config, phase, queue, seen_urls, visited_urls, cur, fetches, harness>>

\* session.get ends in any way
Response(w) == Respond(w, {"200"} \cup Failures)

\* The mutant of Read in which a fetch that ends once the budget is reached is
\* dropped.
ReadUnlessBudget(w, ps) ==
    /\ pc[w] = "text"
    /\ CanRun(w)
    /\ \E p \in ps :
          LET r == IF p = 0
                   THEN [product_urls |-> product_urls, queue |-> queue, seen |-> seen_urls,
                         outcome |-> "exception"]
                   ELSE IF Cardinality(visited_urls) >= max_urls
                   THEN [product_urls |-> product_urls, queue |-> queue, seen |-> seen_urls,
                         outcome |-> "ok"]
                   ELSE OnPage(strategy, cur[w], p, product_urls, queue, seen_urls)
          IN  /\ product_urls' = AfterSuper(strategy, cur[w], r.product_urls, r.outcome)
              /\ queue' = r.queue
              /\ seen_urls' = r.seen
              /\ outcome' = [outcome EXCEPT ![w] = [how |-> r.outcome, page |-> p]]
    /\ pc' = [pc EXCEPT ![w] = "sleep"]
    /\ UNCHANGED <<config, phase, visited_urls, cur, fetches, harness>>

\* process_url, lines 78-95: response.text() ends, with the markup of one of
\* the pages of ps or, for 0, with an exception; the rest of process_url runs
\* without an await, and the worker sleeps (line 64)
Read(w, ps) ==
    /\ pc[w] = "text"
    /\ CanRun(w)
    /\ \E p \in ps :
          LET r == IF p = 0
                   THEN [product_urls |-> product_urls, queue |-> queue, seen |-> seen_urls,
                         outcome |-> "exception"]
                   ELSE OnPage(strategy, cur[w], p, product_urls, queue, seen_urls)
          IN  /\ product_urls' = AfterSuper(strategy, cur[w], r.product_urls, r.outcome)
              /\ queue' = r.queue
              /\ seen_urls' = r.seen
              /\ outcome' = [outcome EXCEPT ![w] = [how |-> r.outcome, page |-> p]]
    /\ pc' = [pc EXCEPT ![w] = "sleep"]
    /\ UNCHANGED <<config, phase, visited_urls, cur, fetches, harness>>

\* response.text() ends with any page or with an exception
Text(w) == Read(w, 0..Len(Pages))

\* The mutant of Gather that returns as soon as one task has ended.
GatherFirstCompleted ==
    /\ phase = "running"
    /\ \E w \in Workers : pc[w] \in {"done", "raised"}
    /\ phase' = IF \E w \in Workers : pc[w] = "raised" THEN "aborted" ELSE "done"
    /\ UNCHANGED <<config, queue, seen_urls, visited_urls, product_urls, pc, cur, fetches,
                   outcome, harness>>

\* crawl, lines 41-44: gather ends when every task has ended, or at once with
\* the exception of a task that raised
Gather ==
    /\ phase = "running"
    /\ \/ \A w \in Workers : pc[w] = "done"
       \/ \E w \in Workers : pc[w] = "raised"
    /\ phase' = IF \E w \in Workers : pc[w] = "raised" THEN "aborted" ELSE "done"
    /\ UNCHANGED <<config, queue, seen_urls, visited_urls, product_urls, pc, cur, fetches,
                   outcome, harness>>

Next ==
    \/ Seed
    \/ Launch
    \/ \E w \in Workers : While(w)
    \/ \E w \in Workers : Budget(w)
    \/ \E w \in Workers : Get_(w)
    \/ \E w \in Workers : Visited(w)
    \/ \E w \in Workers : Mark(w)
    \/ \E w \in Workers : Response(w)
    \/ \E w \in Workers : Text(w)
    \/ Gather

Spec == Init /\ [][Next]_vars

\* The event loop resumes a task whenever one is ready, and every session.get
\* and response.text ends (with a response, an error or the session's
\* timeout): as long as a step of the crawl is possible, one is taken.
FairSpec == Init /\ [][Next]_vars /\ WF_vars(Next)

-----------------------------------------------------------------------------
(* The crawl as the asyncio event loop starts it: the tasks crawl creates    *)
(* (lines 36-39) are first run in the order of their creation, each to its   *)
(* first await or to its end, before the loop polls for the end of a fetch.  *)

\* The mutant of FifoOrder in which the loop runs the ready tasks in any order.
FifoOrderNone(w) == TRUE

\* task w may take its step: its first one after every task created before
\* it has taken its own, and the end of its fetch after every task's first
FifoOrder(w) ==
    /\ pc[w] = "start" => \A v \in Workers : v < w => pc[v] # "start"
    /\ pc[w] \in {"get", "text"} => \A v \in Workers : pc[v] # "start"

FifoNext ==
    \/ Seed
    \/ Launch
    \/ \E w \in Workers : FifoOrder(w) /\ While(w)
    \/ \E w \in Workers : FifoOrder(w) /\ Budget(w)
    \/ \E w \in Workers : FifoOrder(w) /\ Get_(w)
    \/ \E w \in Workers : FifoOrder(w) /\ Visited(w)
    \/ \E w \in Workers : FifoOrder(w) /\ Mark(w)
    \/ \E w \in Workers : FifoOrder(w) /\ Response(w)
    \/ \E w \in Workers : FifoOrder(w) /\ Text(w)
    \/ Gather

FifoSpec == Init /\ [][FifoNext]_vars

-----------------------------------------------------------------------------
(* The crawl of a site of two pages by the base crawler: the root page      *)
(* holds an anchor to /p/123, and /p/123 holds no link to a URL the         *)
(* frontier has not seen.  Every fetch ends with status 200 and a markup.   *)

Root == Normalize(DomainOf("generic"))

\* the pages the site serves for url
SitePages(url) ==
    IF url = Root THEN {1}
    ELSE {p \in 1..Len(Pages) :
            \A k \in 1..Len(Scanned["generic"][url][p].links) :
                Normalize(Scanned["generic"][url][p].links[k]) \in {Root, url}}

\* Crawler.__init__ for the root of the site, a budget of two URLs or more
\* and one worker or more
SInit ==
    /\ strategy = "generic"
    /\ max_urls \in 2..MaxBudget
    /\ concurrency \in 1..MaxWorkers
    /\ phase = "idle"
    /\ queue = <<>>
    /\ seen_urls = {}
    /\ visited_urls = {}
    /\ product_urls = {}
    /\ pc = <<>>
    /\ cur = <<>>
    /\ fetches = <<>>
    /\ outcome = <<>>
    /\ calls = <<>>
    /\ cin = <<>>
    /\ cout = <<>>

SNext ==
    \/ Seed
    \/ Launch
    \/ \E w \in Workers : While(w)
    \/ \E w \in Workers : Budget(w)
    \/ \E w \in Workers : Get_(w)
    \/ \E w \in Workers : Visited(w)
    \/ \E w \in Workers : Mark(w)
    \/ \E w \in Workers : Respond(w, {"200"})
    \/ \E w \in Workers : Read(w, SitePages(cur[w]))
    \/ Gather

\* the event loop resumes a task whenever one is ready and every fetch ends
SiteSpec == SInit /\ [][SNext]_vars /\ WF_vars(SNext)

-----------------------------------------------------------------------------
(* crawler/url_frontier.py on its own: a URLFrontier driven by any sequence *)
(* of add and get calls.                                                    *)

MaxCalls == 5

\* the arguments of add: URLs and their trailing-slash variants
FrontierUrls == {"", "/", "/a", "/a/", "/a//", "/b", "/b/"}

\* URLFrontier.__init__
FInit ==
    /\ strategy = "generic"
    /\ max_urls = 0
    /\ concurrency = 0
    /\ phase = "frontier"
    /\ queue = <<>>
    /\ seen_urls = {}
    /\ visited_urls = {}
    /\ product_urls = {}
    /\ pc = <<>>
    /\ cur = <<>>
    /\ fetches = <<>>
    /\ outcome = <<>>
    /\ calls = <<>>
    /\ cin = <<>>
    /\ cout = <<>>

\* a call of URLFrontier.add
FAdd(url) ==
    /\ phase = "frontier"
    /\ Len(calls) < MaxCalls
    /\ LET f == FrontierAdd(queue, seen_urls, url)
       IN  queue' = f.queue /\ seen_urls' = f.seen
    /\ calls' = Append(calls, [op |-> "add", url |-> url])
    /\ UNCHANGED <<config, phase, visited_urls, product_urls, pc, cur, fetches, outcome, cin, cout>>

\* a call of URLFrontier.get; on an empty queue popleft raises IndexError and
\* the frontier stays as it is
FGet ==
    /\ phase = "frontier"
    /\ Len(calls) < MaxCalls
    /\ ~is_empty(queue)
    /\ queue' = FrontierGet(queue).queue
    /\ calls' = Append(calls, [op |-> "get", url |-> FrontierGet(queue).url])
    /\ UNCHANGED <<config, phase, seen_urls, visited_urls, product_urls, pc, cur, fetches,
                   outcome, cin, cout>>

FNext ==
    \/ \E url \in FrontierUrls : FAdd(url)
    \/ FGet

FrontierSpec == FInit /\ [][FNext]_vars

-----------------------------------------------------------------------------
(* crawler/product_identifier.py on its own: is_product_page applied to a   *)
(* URL and a page.                                                          *)

\* the URLs the classifier is given: those of the generic site, and URLs with
\* a query string
ClassifierUrls ==
    SiteUrls["generic"] \cup
    {"https://shop.example/view?pid=7", "https://shop.example/view?pid=",
     "https://shop.example/view?id=7&sku=A1", "https://shop.example/list?page=2",
     "https://shop.example/shopping"}

CInit ==
    /\ strategy = "generic"
    /\ max_urls = 0
    /\ concurrency = 0
    /\ phase = "classifier"
    /\ queue = <<>>
    /\ seen_urls = {}
    /\ visited_urls = {}
    /\ product_urls = {}
    /\ pc = <<>>
    /\ cur = <<>>
    /\ fetches = <<>>
    /\ outcome = <<>>
    /\ calls = <<>>
    /\ cin \in ClassifierUrls \X (1..Len(Pages))
    /\ cout = <<>>

\* the call self.product_identifier.is_product_page(url, html, soup)
Classify ==
    /\ phase = "classifier"
    /\ cout = <<>>
    /\ cout' = <<is_product_page(cin[1], Pages[cin[2]])>>
    /\ UNCHANGED <<config, phase, queue, seen_urls, visited_urls, product_urls, pc, cur,
                   fetches, outcome, calls, cin>>

CNext == Classify

ClassifierSpec == CInit /\ [][CNext]_vars

-----------------------------------------------------------------------------
(* _check_page_content on its own, applied to pages put together from a     *)
(* text, a candidate price element and a candidate quantity element.        *)

\* texts holding no, one, two and three of the indicator phrases
ContentTexts == <<
    [html |-> "", els |-> <<>>],
    [html |-> "<p>Hello</p>", els |-> <<E("p", 0, "Hello", {})>>],
    [html |-> "<p>Buy Now</p>", els |-> <<E("p", 0, "Buy Now", {})>>],
    [html |-> "<p>Free shipping</p>", els |-> <<E("p", 0, "Free shipping", {})>>],
    [html |-> "<p>Add to Cart</p><p>Size Chart</p>",
     els |-> <<E("p", 0, "Add to Cart", {}), E("p", 0, "Size Chart", {})>>],
    [html |-> "<p>ADD TO BAG, buy now, specifications</p>",
     els |-> <<E("p", 0, "ADD TO BAG, buy now, specifications", {})>>] >>

\* no element, two price elements, and two elements that are none: a tag
\* find_all does not look at, a class the pattern does not match
ContentPrices == <<
    [html |-> "", els |-> <<>>],
    [html |-> "<span class=\"price\">10</span>",
     els |-> <<E("span", 0, "10", {<<"class", "price">>})>>],
    [html |-> "<div class=\"product-MRP\">10</div>",
     els |-> <<E("div", 0, "10", {<<"class", "product-MRP">>})>>],
    [html |-> "<b class=\"price\">10</b>",
     els |-> <<E("b", 0, "10", {<<"class", "price">>})>>],
    [html |-> "<span class=\"tag\">10</span>",
     els |-> <<E("span", 0, "10", {<<"class", "tag">>})>>] >>

\* the same for the quantity and size elements
ContentQuantities == <<
    [html |-> "", els |-> <<>>],
    [html |-> "<select class=\"qty\"></select>",
     els |-> <<E("select", 0, "", {<<"class", "qty">>})>>],
    [html |-> "<input class=\"Size-Option\">",
     els |-> <<E("input", 0, "", {<<"class", "Size-Option">>})>>],
    [html |-> "<span class=\"quantity\">1</span>",
     els |-> <<E("span", 0, "1", {<<"class", "quantity">>})>>] >>

ContentPage(t, p, q) ==
    [html |-> ContentTexts[t].html \o ContentPrices[p].html \o ContentQuantities[q].html,
     els |-> ContentTexts[t].els \o ContentPrices[p].els \o ContentQuantities[q].els]

KInit ==
    /\ strategy = "generic"
    /\ max_urls = 0
    /\ concurrency = 0
    /\ phase = "content"
    /\ queue = <<>>
    /\ seen_urls = {}
    /\ visited_urls = {}
    /\ product_urls = {}
    /\ pc = <<>>
    /\ cur = <<>>
    /\ fetches = <<>>
    /\ outcome = <<>>
    /\ calls = <<>>
    /\ cin \in (1..Len(ContentTexts)) \X (1..Len(ContentPrices)) \X (1..Len(ContentQuantities))
    /\ cout = <<>>

\* the call self._check_page_content(html, soup)
CheckContent ==
    /\ phase = "content"
    /\ cout = <<>>
    /\ cout' = <<check_page_content(ContentPage(cin[1], cin[2], cin[3]))>>
    /\ UNCHANGED <<config, phase, queue, seen_urls, visited_urls, product_urls, pc, cur,
                   fetches, outcome, calls, cin>>

KNext == CheckContent

ContentSpec == KInit /\ [][KNext]_vars

-----------------------------------------------------------------------------
(* should_crawl on its own: the method of each crawler class applied to a   *)
(* URL.                                                                     *)

\* what follows the root in the URLs should_crawl is given
AdmissionPaths ==
    {"", "a", "a/", "products/x", "products/cart/", "category/login", "fashion/checkout/y",
     "cart", "search", "privacy", "customer-service", "store-locator", "brands/z",
     "a.css", "a.css/", "a.css?v=1", "img/logo.svg", "app.js", "x#top", "prod/7#reviews",
     "collection/sale"}

\* the URLs should_crawl is given under the crawler of st: URLs of its site, of
\* its site with a port and over http, of another site, and no URL at all
AdmissionUrls(st) ==
    {DomainOf(st) \o x : x \in AdmissionPaths}
    \cup {rstrip(DomainOf(st), "/") \o ":443/" \o x : x \in {"a", "products/x"}}
    \cup {"http" \o From(DomainOf(st), 6) \o x : x \in {"a", "cart"}}
    \cup {"https://other.example/" \o x : x \in {"a", "products/x", "a.css", "x#top"}}
    \cup {"", "/products/x", "mailto:shop@other.example"}

AInit ==
    /\ strategy \in Strategies
    /\ max_urls = 0
    /\ concurrency = 0
    /\ phase = "admission"
    /\ queue = <<>>
    /\ seen_urls = {}
    /\ visited_urls = {}
    /\ product_urls = {}
    /\ pc = <<>>
    /\ cur = <<>>
    /\ fetches = <<>>
    /\ outcome = <<>>
    /\ calls = <<>>
    /\ cin \in {<<url>> : url \in AdmissionUrls(strategy)}
    /\ cout = <<>>

\* the call self.should_crawl(link)
Admit ==
    /\ phase = "admission"
    /\ cout = <<>>
    /\ cout' = <<should_crawl(strategy, cin[1])>>
    /\ UNCHANGED <<config, phase, queue, seen_urls, visited_urls, product_urls, pc, cur,
                   fetches, outcome, calls, cin>>

ANext == Admit

AdmissionSpec == AInit /\ [][ANext]_vars

-----------------------------------------------------------------------------
(* The properties of the crawl and of its parts.                            *)

\* the workers whose fetch is in flight
InFlight == {w \in Workers : pc[w] \in {"get", "text"}}

\* C1: each URL is passed to process_url at most once: no URL's count of
\* process_url calls exceeds one, and no two of the URLs fetched are equal
\* once their trailing slashes are stripped.
FetchedAtMostOnce ==
    \A u, v \in DOMAIN fetches :
        /\ fetches[u] <= 1
        /\ u # v => Normalize(u) # Normalize(v)

\* C1, its case: one worker has fetched a page that links to /p/123, another
\* has fetched /p/123 and found a page that links to /p/123/ and to /item/9,
\* and only the latter is queued.
FetchedOnceOfTwoLinks ==
    /\ strategy = "generic"
    /\ \E w, v \in Workers :
          /\ w # v
          /\ outcome[w].page = 1
          /\ outcome[v].page = 3 /\ cur[v] = "https://shop.example/p/123"
    /\ queue = <<"https://shop.example/item/9">>

\* C2: the number of URLs marked visited never exceeds max_urls, whatever
\* max_urls (0 included) and the number of workers.
VisitedWithinBudget == Cardinality(visited_urls) <= max_urls

\* C2, its case: the budget is reached while two workers have a fetch in
\* flight.
BudgetReachedInFlight ==
    /\ max_urls >= 2
    /\ Cardinality(visited_urls) = max_urls
    /\ Cardinality(InFlight) >= 2

\* the URLs get returned, in order
Returned == [k \in 1..Len(SelectSeq(calls, LAMBDA c : c.op = "get")) |->
               SelectSeq(calls, LAMBDA c : c.op = "get")[k].url]

\* the arguments of add, in order
Added == [k \in 1..Len(SelectSeq(calls, LAMBDA c : c.op = "add")) |->
            SelectSeq(calls, LAMBDA c : c.op = "add")[k].url]

\* C3: a normalized URL is appended to the queue at most once over the
\* frontier's lifetime: among the entries the queue has held (those get
\* returned, then those still queued) no two are equal, trailing slashes
\* apart.
EnqueuedAtMostOnce ==
    \A i, j \in 1..Len(Returned \o queue) :
        i # j => Normalize((Returned \o queue)[i]) # Normalize((Returned \o queue)[j])

\* C3, its case: /a was added, get returned it, and then /a/ was added.
ReaddedAfterGet ==
    \E i, j, k \in 1..Len(calls) :
        /\ i < j /\ j < k
        /\ calls[i] = [op |-> "add", url |-> "/a"]
        /\ calls[j] = [op |-> "get", url |-> "/a"]
        /\ calls[k] = [op |-> "add", url |-> "/a/"]

RECURSIVE FirstAdds(_, _)
\* the distinct normalized URLs of a sequence of add arguments, in the order
\* of their first add
FirstAdds(urls, sofar) ==
    IF urls = <<>> THEN sofar
    ELSE IF \E k \in 1..Len(sofar) : sofar[k] = rstrip(Head(urls), "/")
         THEN FirstAdds(Tail(urls), sofar)
         ELSE FirstAdds(Tail(urls), Append(sofar, rstrip(Head(urls), "/")))

\* C4: the values get returned are, in order, a prefix of the distinct
\* normalized URLs in the order of their first add.
GetIsFifo ==
    /\ Len(Returned) <= Len(FirstAdds(Added, <<>>))
    /\ Returned = SubSeq(FirstAdds(Added, <<>>), 1, Len(Returned))

\* C4, its case: adds and gets interleave, and get has returned two URLs of
\* which the first was added as a trailing-slash variant.
GetsBetweenAdds ==
    \E i, j, k, l \in 1..Len(calls) :
        /\ i < j /\ j < k /\ k < l
        /\ calls[i] = [op |-> "add", url |-> "/b/"]
        /\ calls[j] = [op |-> "get", url |-> "/b"]
        /\ calls[k].op = "add" /\ calls[l].op = "get"

\* C5: crawl returns only after every worker has ended its loop, and then
\* the frontier is empty or the visited count has reached max_urls; the run
\* never ends on a failure.
DoneOnlyWhenExhausted ==
    /\ phase # "aborted"
    /\ phase = "done" =>
          /\ \A w \in Workers : pc[w] = "done"
          /\ is_empty(queue) \/ Cardinality(visited_urls) >= max_urls

\* C5 for a pool of at least one worker.
DoneOnlyWhenExhaustedPool == concurrency >= 1 => DoneOnlyWhenExhausted

\* C6: every crawl run eventually reaches Done.
EventuallyDone == <>(phase = "done")

\* C6, its case: the run of two workers is done with the budget spent and
\* links still queued.
DoneWithLinksLeft ==
    /\ phase = "done"
    /\ concurrency = 2
    /\ max_urls = 3
    /\ Cardinality(visited_urls) = 3
    /\ ~is_empty(queue)

\* the ways process_url fails on a URL
Absorbed == Failures \cup {"exception"}

\* C7: a failure of process_url is absorbed: no task ever ends with an
\* exception and the crawl is never aborted; the step that ends a failed
\* process_url takes its worker to the pacing sleep before the loop
\* condition and changes no other worker's position or URL.
FailureAbsorbed ==
    /\ [](phase # "aborted" /\ \A w \in Workers : pc[w] # "raised")
    /\ [][\A w \in Workers :
            (/\ pc[w] \in {"get", "text"}
             /\ pc'[w] \notin {"get", "text"}
             /\ outcome'[w].how \in Absorbed)
            => /\ pc'[w] = "sleep"
               /\ phase' = phase
               /\ \A v \in Workers \ {w} : pc'[v] = pc[v] /\ cur'[v] = cur[v]]_vars

\* C7, its case: a worker pauses after a process_url that failed, while
\* another worker's fetch is in flight.
PausingAfterFailure ==
    /\ phase = "running"
    /\ \E w, v \in Workers :
          /\ w # v
          /\ outcome[w].how \in Absorbed
          /\ pc[w] = "sleep"
          /\ pc[v] \in {"get", "text"}

\* C8: for every strategy, the step that ends process_url on a status other
\* than 200 or on a transport error adds nothing to product_urls and nothing
\* to the frontier.
FailedFetchAddsNothing ==
    [][\A w \in Workers :
         (pc[w] = "get" /\ pc'[w] = "sleep" /\ outcome'[w].how \in Failures)
         => /\ product_urls' = product_urls
            /\ queue' = queue
            /\ seen_urls' = seen_urls]_vars

\* what the generic classifier returns for each URL of a site and each page
GenericPositive ==
    [st \in Strategies |->
       [u \in SiteUrls[st] |-> [p \in 1..Len(Pages) |-> is_product_page(u, Pages[p])]]]

\* C9: under every override of process_url, a URL fetched with status 200
\* for which the generic classifier returns true is in product_urls when
\* process_url has ended.
OverrideKeepsGenericPositive ==
    \A w \in Workers :
        (/\ strategy # "generic"
         /\ pc[w] = "sleep"
         /\ outcome[w].page > 0
         /\ GenericPositive[strategy][cur[w]][outcome[w].page])
        => cur[w] \in product_urls

\* C10: is_product_page returns the disjunction of the three signals.
ClassifierIsDisjunction ==
    cout # <<>> =>
        cout[1] = (\/ check_url_pattern(cin[1])
                   \/ check_page_content(Pages[cin[2]])
                   \/ check_metadata(Pages[cin[2]]))

\* C10, its case: the metadata signal alone is true, and is_product_page
\* returned true.
MetadataAlone ==
    /\ cout = <<TRUE>>
    /\ ~check_url_pattern(cin[1])
    /\ ~check_page_content(Pages[cin[2]])
    /\ check_metadata(Pages[cin[2]])

\* C11: NykaaCrawler.should_crawl returns false for every URL that holds an
\* excluded path, also when the URL holds a priority path.
NykaaExclusionFirst ==
    (/\ strategy = "nykaa"
     /\ cout # <<>>
     /\ \E x \in nykaa_excluded_paths : Contains(cin[1], x))
    => cout[1] = FALSE

\* C11, its case: a URL of the site with the priority path /products/ and
\* the excluded path /cart was refused.
PriorityAndExcludedRefused ==
    /\ strategy = "nykaa"
    /\ cin = <<"https://nykaafashion.com/products/cart/">>
    /\ cout = <<FALSE>>

\* C12: the crawl of the two-page site by the base crawler ends with
\* https://shop.example/p/123 fetched exactly once and among the product
\* URLs, and with the frontier empty.
SeedLinkCrawled ==
    <>[](/\ phase = "done"
         /\ is_empty(queue)
         /\ "https://shop.example/p/123" \in product_urls
         /\ "https://shop.example/p/123" \in DOMAIN fetches
         /\ fetches["https://shop.example/p/123"] = 1)

\* C12, its case: the crawl of the two-page site by two workers is done, with
\* both pages visited, /p/123 recorded and nothing queued.
SiteCrawledByTwo ==
    /\ phase = "done"
    /\ concurrency = 2
    /\ visited_urls = {"https://shop.example", "https://shop.example/p/123"}
    /\ product_urls = {"https://shop.example/p/123"}
    /\ is_empty(queue)

\* C13: no worker calls URLFrontier.get on an empty frontier: a worker that
\* has passed the emptiness check of line 48 finds the queue non-empty up to
\* its popleft, and no worker ends with the IndexError of popleft.
GetNeverOnEmpty ==
    \A w \in Workers :
        /\ pc[w] # "raised"
        /\ pc[w] \in {"L50", "L53"} => ~is_empty(queue)

\* C13, its case: a worker is about to take the last queued URL while the
\* other worker, past the same checks earlier, is suspended in its fetch.
LastUrlTakenBesideFetch ==
    /\ concurrency = 2
    /\ Len(queue) = 1
    /\ \E w, v \in Workers :
          /\ pc[w] = "L53"
          /\ pc[v] \in {"get", "text"}

EndsOnlyAtLoopTest ==
    /\ [][\A w \in Workers :
            (pc[w] # "done" /\ pc'[w] = "done")
            => \/ pc[w] \in {"start", "sleep", "L48"} /\ is_empty(queue)
               \/ pc[w] = "L50" /\ BudgetReached]_vars
    /\ [](\A w \in Workers :
            (pc[w] = "sleep" /\ outcome[w].how = "ok")
            => /\ \A l \in Range(Scanned[strategy][cur[w]][outcome[w].page].links) :
                     Normalize(l) \in seen_urls
               /\ Detected[strategy][cur[w]][outcome[w].page] => cur[w] \in product_urls)

\* C15, its case: a fetch that was in flight when the budget was reached and
\* the other worker ended has been processed: its URL is a product and its
\* link is queued.
ProcessedAfterBudget ==
    /\ strategy = "generic"
    /\ max_urls = 1
    /\ \E w, v \in Workers :
          /\ pc[v] = "done"
          /\ pc[w] = "sleep"
          /\ outcome[w] = [how |-> "ok", page |-> 4]
          /\ cur[w] \in product_urls
          /\ queue = <<"https://shop.example/product/5">>

\* C16: no URL is retried: a URL whose process_url failed is in visited_urls,
\* no URL ever leaves visited_urls, the frontier never holds and never
\* returns a visited URL, and no URL is fetched twice.
NeverRetried ==
    /\ [](/\ \A w \in Workers :
                (pc[w] = "sleep" /\ outcome[w].how \in Absorbed) => cur[w] \in visited_urls
          /\ \A k \in 1..Len(queue) : queue[k] \notin visited_urls
          /\ \A u \in DOMAIN fetches : fetches[u] = 1 /\ u \in visited_urls)
    /\ [][/\ visited_urls \subseteq visited_urls'
          /\ \A w \in Workers :
                (pc[w] = "L53" /\ pc'[w] = "L56") => cur'[w] \notin visited_urls]_vars

\* C16, its case: the fetch of /p/123 failed, and the page fetched after it
\* links to /p/123: the frontier stays empty and /p/123 counts in the budget.
FailedUrlLinkedAgain ==
    /\ strategy = "generic"
    /\ concurrency = 1
    /\ visited_urls = {"https://shop.example", "https://shop.example/p/123",
                       "https://shop.example/item/9"}
    /\ "https://shop.example/p/123" \notin product_urls
    /\ pc[1] = "sleep"
    /\ cur[1] = "https://shop.example/item/9"
    /\ outcome[1] = [how |-> "ok", page |-> 1]
    /\ BudgetReached
    /\ is_empty(queue)

\* C17: with c the number of indicator phrases found in the lowercased
\* markup, the content signal is true exactly when c >= 2, or c >= 1 and a
\* price element exists, or c >= 1 and a quantity or size element exists;
\* with c = 0 it is false whatever the elements.
ContentSignal ==
    (phase = "content" /\ cout # <<>>)
    => LET page == ContentPage(cin[1], cin[2], cin[3])
           c == indicator_count(page.html)
       IN  /\ cout[1] = (\/ c >= 2
                         \/ c >= 1 /\ price_elements(page.els) # {}
                         \/ c >= 1 /\ qty_elements(page.els) # {})
           /\ c = 0 => cout[1] = FALSE

\* C17, its case: one indicator phrase and a size input, without a price
\* element, make the content signal true.
OneIndicatorAndSizeInput ==
    /\ phase = "content"
    /\ cin = <<3, 1, 3>>
    /\ indicator_count(ContentPage(3, 1, 3).html) = 1
    /\ price_elements(ContentPage(3, 1, 3).els) = {}
    /\ cout = <<TRUE>>

\* C18: each should_crawl override (Nykaa, Tatacliq, Westside) admits only
\* URLs the base should_crawl admits for the same root.
OverrideAtLeastAsRestrictive ==
    (/\ phase = "admission"
     /\ strategy \in {"nykaa", "tatacliq", "westside"}
     /\ cout # <<>>
     /\ cout[1])
    => base_should_crawl(strategy, cin[1])

\* C18, its case: the Tatacliq override has admitted a URL of its site, which
\* the base rule admits, and the override is given URLs the base rule refuses.
TatacliqAdmitsWhatBaseAdmits ==
    /\ phase = "admission"
    /\ strategy = "tatacliq"
    /\ cin = <<DomainOf("tatacliq") \o "products/x">>
    /\ cout = <<TRUE>>
    /\ base_should_crawl("tatacliq", cin[1])
    /\ \E url \in AdmissionUrls("tatacliq") : ~base_should_crawl("tatacliq", url)

\* C19: the priority paths of NykaaCrawler.should_crawl change nothing: the
\* result is true exactly when the base should_crawl is true and the URL
\* holds no excluded path, whether or not the URL holds a priority path.
NykaaPriorityIsNoOp ==
    (phase = "admission" /\ strategy = "nykaa" /\ cout # <<>>)
    => cout[1] = (/\ base_should_crawl("nykaa", cin[1])
                  /\ \A x \in nykaa_excluded_paths : ~Contains(cin[1], x))

\* C19, its case: a URL of the site that holds neither a priority path nor an
\* excluded path is admitted, as one with a priority path is.
NoPriorityPathAdmitted ==
    /\ phase = "admission"
    /\ strategy = "nykaa"
    /\ cin = <<DomainOf("nykaa") \o "a">>
    /\ \A x \in nykaa_priority_paths : ~Contains(cin[1], x)
    /\ should_crawl("nykaa", DomainOf("nykaa") \o "products/x")
    /\ cout = <<TRUE>>

\* the rank of the engine's phase: Idle 1, Seeded 2, Running 3, Draining 4
\* (a worker has left its loop), Done 5; 0 for a crawl that raised
EnginePhase ==
    CASE phase = "idle" -> 1
      [] phase = "seeded" -> 2
      [] phase = "running" /\ \A w \in Workers : pc[w] # "done" -> 3
      [] phase = "running" /\ \E w \in Workers : pc[w] = "done" -> 4
      [] phase = "done" -> 5
      [] OTHER -> 0

\* C20: the phases come in the order Idle, Seeded, Running, Draining, Done:
\* before seeding nothing is queued, no worker exists and nothing is fetched;
\* the workers start with the root queued; crawl returns only with every
\* worker ended; and after it product_urls, visited_urls and the frontier no
\* longer change.
PhasesInOrder ==
    /\ [][EnginePhase' >= EnginePhase /\ EnginePhase' # 0]_vars
    /\ [](/\ phase = "idle"
             => is_empty(queue) /\ seen_urls = {} /\ Workers = {} /\ fetches = <<>>
          /\ phase = "seeded"
             => /\ queue = <<Normalize(DomainOf(strategy))>>
                /\ Workers = {} /\ fetches = <<>> /\ visited_urls = {}
          /\ (Workers # {} \/ fetches # <<>>) => Normalize(DomainOf(strategy)) \in seen_urls
          /\ phase = "done" => \A w \in Workers : pc[w] = "done")
    /\ [][phase = "done"
          => UNCHANGED <<product_urls, visited_urls, queue, seen_urls, fetches>>]_vars

\* C20, its case: crawl has returned after two workers ended, one on the
\* budget, with a product found and a link left in the frontier.
ReturnedAfterBothEnded ==
    /\ phase = "done"
    /\ concurrency = 2
    /\ \A w \in Workers : pc[w] = "done"
    /\ product_urls # {}
    /\ ~is_empty(queue)

\* C21: product_urls only grows, under every strategy: no step removes a URL
\* from it, a URL whose page a worker has just classified as a product is in
\* it, and so crawl returns every URL classified as a product in the run.
ProductsOnlyGrow ==
    /\ [][product_urls \subseteq product_urls']_vars
    /\ [](\A w \in Workers :
            (/\ pc[w] = "sleep"
             /\ \/ outcome[w].page >= 1 /\ Detected[strategy][cur[w]][outcome[w].page]
                \/ DetectedAfterSuper[strategy][cur[w]])
            => cur[w] \in product_urls)

\* C21, its case: crawl has returned two product URLs, added by two fetches.
TwoProductsReturned ==
    /\ phase = "done"
    /\ Cardinality(product_urls) >= 2

\* C22: under every strategy, in every reachable state, product_urls is a
\* subset of visited_urls and visited_urls is a subset of the frontier's
\* seen_urls.
ProductsVisitedSeen ==
    /\ product_urls \subseteq visited_urls
    /\ visited_urls \subseteq seen_urls

\* C22, its case: the Westside crawler has recorded a URL whose fetch failed,
\* which is visited and seen, beside a URL visited and not recorded.
FailedProductIsVisited ==
    /\ strategy = "westside"
    /\ \E w \in Workers :
          /\ pc[w] = "sleep"
          /\ outcome[w].how \in Failures
          /\ cur[w] \in product_urls
    /\ product_urls # {}
    /\ product_urls # visited_urls

\* C23: the queued URLs are never visited ones, so the test of line 56 never
\* finds the URL visited: a worker that has taken a URL holds one that is not
\* visited and not fetched, goes on to line 59, and every URL taken is
\* fetched once, by the one worker that took it.
QueuedNeverVisited ==
    /\ [](/\ \A k \in 1..Len(queue) : queue[k] \notin visited_urls
          /\ \A w \in Workers :
                /\ pc[w] \in {"L56", "L59"}
                   => cur[w] \notin visited_urls /\ cur[w] \notin DOMAIN fetches
                /\ pc[w] \in {"get", "text", "sleep"}
                   => cur[w] \in DOMAIN fetches /\ fetches[cur[w]] = 1
                /\ \A v \in Workers \ {w} : cur[w] # "" => cur[v] # cur[w])
    /\ [][\A w \in Workers : pc[w] = "L56" => pc'[w] \in {"L56", "L59"}]_vars

\* C23, its case: a worker has taken /item/9 and found it not visited, after
\* another worker's page linked to the visited /p/123 again.
TakenUrlNotVisited ==
    /\ strategy = "generic"
    /\ \E w, v \in Workers :
          /\ pc[w] = "L59"
          /\ cur[w] = "https://shop.example/item/9"
          /\ pc[v] = "sleep"
          /\ cur[v] = "https://shop.example/p/123"
          /\ outcome[v] = [how |-> "ok", page |-> 3]
    /\ visited_urls = {"https://shop.example", "https://shop.example/p/123"}

\* C24: when crawl has returned with fewer than max_urls URLs visited, every
\* URL the frontier has admitted has been fetched: seen_urls equals
\* visited_urls.
AllAdmittedFetched ==
    (phase = "done" /\ Cardinality(visited_urls) < max_urls) => seen_urls = visited_urls

\* C24 for a pool of at least one worker.
AllAdmittedFetchedPool == concurrency >= 1 => AllAdmittedFetched

\* a run of two workers in which one ended on the empty frontier before the
\* other's fetch queued a link, returned under budget with all three URLs
\* fetched
UnderBudgetAfterEarlyExit ==
    /\ phase = "done"
    /\ concurrency = 2
    /\ max_urls = 3
    /\ Cardinality(visited_urls) = 2
    /\ seen_urls = visited_urls

\* what should_crawl returns for each URL of a site
AdmitsStored == [st \in Strategies |-> [u \in SiteUrls[st] |-> should_crawl(st, u)]]

\* C25: every URL the frontier has stored, the seed apart, satisfies the
\* should_crawl of the strategy in the form in which it is stored.
StoredUrlsAdmissible ==
    \A u \in seen_urls \ {Normalize(DomainOf(strategy))} : AdmitsStored[strategy][u]

\* C25 without the test of the static extensions: every stored URL has the
\* network location of the root and no fragment.
StoredUrlsOnSite ==
    \A u \in seen_urls :
        /\ urlparse(u).netloc = urlparse(DomainOf(strategy)).netloc
        /\ urlparse(u).fragment = ""

\* C26 as stated: with the tasks started in the order of their creation,
\* every worker but the first ends at its first test of the frontier's
\* emptiness, and at most one fetch is in flight.
OthersEndAtEmptinessTest ==
    /\ \A w \in Workers \ {1} : pc[w] \in {"start", "done"}
    /\ Cardinality(InFlight) <= 1

\* C26 as stated, for a budget of one URL or more.
OthersEndAtEmptinessTestBudget == max_urls >= 1 => OthersEndAtEmptinessTest

\* C26, amended: a worker that has ended never runs again; with the tasks
\* started in the order of their creation, every worker but the first ends in
\* its first pass of the loop without taking a URL, at the test of the
\* frontier's emptiness or, when max_urls is 0 and the seed is still queued,
\* at the test of the budget; at most one fetch is in flight at any time.
OthersEndInFirstPass ==
    /\ [][\A w \in Workers : pc[w] = "done" => pc'[w] = "done"]_vars
    /\ [](/\ \A w \in Workers \ {1} :
                /\ pc[w] \in {"start", "L50", "done"}
                /\ cur[w] = ""
                /\ pc[w] = "L50" => max_urls = 0 /\ queue = <<Normalize(DomainOf(strategy))>>
          /\ Cardinality(InFlight) <= 1
          /\ InFlight \subseteq {1})

\* C26, its case: of two workers the second has ended and the first, alone,
\* has its third fetch in flight.
FirstWorkerAlone ==
    /\ concurrency = 2
    /\ Workers = {1, 2}
    /\ pc[2] = "done"
    /\ pc[1] = "get"
    /\ Cardinality(visited_urls) = 3

====
